---- MODULE Spec2Model ----
(***************************************************************************)
(* A model of doc/src/remove-tt.py: the script that strips \texttt{...}    *)
(* markup from a text file.  A text is a sequence of one-character         *)
(* strings.  The file system maps a path to a file record; one run of the  *)
(* script is a sequence of steps, one per statement of the module body.    *)
(***************************************************************************)
EXTENDS Integers, Sequences, FiniteSets, TLC

VARIABLES
    pc,            \* the statement the run is about to execute
    argv,          \* the positional arguments, sys.argv[1:]
    fs,            \* the file system: path -> file record
    fs0,           \* the file system when the run started (history)
    in_filename,   \* line 5
    out_filename,  \* line 5
    in_file,       \* the handle of line 11: "none", "open" or "closed"
    out_file,      \* the handle of line 15: "none", "open" or "closed"
    orig,          \* line 12
    replaced,      \* line 14
    error,         \* the uncaught exception that ended the run, or "none"
    nread,         \* how many times in_file.read() ran (history)
    nsub,          \* how many times tt_regex.sub ran (history)
    nwrite         \* how many times out_file.write ran (history)

vars == <<pc, argv, fs, fs0, in_filename, out_filename, in_file, out_file,
          orig, replaced, error, nread, nsub, nwrite>>

-----------------------------------------------------------------------------
(* Bounds of the model. *)

\* the longest Source Text of the filter specification, in pieces
MaxPieces == 7
\* the longest Source Text of the filter specification, in characters
MaxLen == 26
\* the longest file content of the run specification, in pieces
MaxFilePieces == 2
\* the most positional arguments a run is given
MaxArgs == 3

-----------------------------------------------------------------------------
(* Texts. *)

\* the literal the pattern of line 6 starts with: \texttt{
Marker == <<"\\", "t", "e", "x", "t", "t", "t", "{">>

CloseBrace == "}"

\* The pieces Source Texts are built from: the marker, the two braces, and a
\* head and a tail of the marker's own letters.
Pieces == { Marker, <<"}">>, <<"{">>, <<"\\", "t", "e">>, <<"x", "t", "t", "t">> }

\* The pieces file contents are built from: one whole \texttt{xttt}, a plain word.
FilePieces == { Marker \o <<"x", "t", "t", "t", "}">>, <<"x", "t", "t", "t">> }

RECURSIVE Flatten(_)
Flatten(ps) == IF ps = <<>> THEN <<>> ELSE Head(ps) \o Flatten(Tail(ps))

TextsOf(pieces, n) ==
    { Flatten(ps) : ps \in UNION { [1..k -> pieces] : k \in 0..n } }

-----------------------------------------------------------------------------
(* Line 6: tt_regex = re.compile(r'\\texttt\{([^\}]+)\}') *)

\* the literal part \\texttt\{ matches at position i of s
MarkerAt(s, i) ==
    /\ i >= 1
    /\ i + Len(Marker) - 1 <= Len(s)
    /\ s[i] = Marker[1]
    /\ \A k \in 2..Len(Marker) : s[i + k - 1] = Marker[k]

\* (a variant: . in place of [^\}], a run that takes closing braces too)
GreedyRunAny(s, j) == IF j > Len(s) THEN 0 ELSE Len(s) - j + 1

\* [^\}] : how many characters from position j on are not a closing brace
RECURSIVE GreedyRun(_, _)
GreedyRun(s, j) ==
    IF j > Len(s) \/ s[j] = CloseBrace THEN 0 ELSE 1 + GreedyRun(s, j + 1)

\* the repetition counts the quantifier + may take over a run of m characters
Quantifier(m) == 1..m

\* ([^\}]+)\} from position j: the quantifier takes the longest count that is
\* followed by the closing brace, backtracking from the whole run; 0 is no match
CaptureLen(s, j) ==
    LET ks == { k \in Quantifier(GreedyRun(s, j)) :
                    j + k <= Len(s) /\ s[j + k] = CloseBrace }
    IN  IF ks = {} THEN 0 ELSE CHOOSE k \in ks : \A l \in ks : l <= k

NoMatch == [start |-> 0, end |-> 0, group0 |-> <<>>, group1 |-> <<>>]

\* tt_regex matched at position i of s: the match object, or NoMatch.
\* end is the position after the match.
tt_regex_match(s, i) ==
    IF ~MarkerAt(s, i) THEN NoMatch
    ELSE LET j == i + Len(Marker)
             n == CaptureLen(s, j)
         IN  IF n = 0 THEN NoMatch
             ELSE [start  |-> i,
                   end    |-> j + n + 1,
                   group0 |-> SubSeq(s, i, j + n),
                   group1 |-> SubSeq(s, j, j + n - 1)]

\* (a variant: the whole match, m.group(0))
tt_replace_group0(m) == m.group0

(* Lines 8-9: def tt_replace(m): return m.group(1) *)
tt_replace(m) == m.group1

\* tt_regex searched from position pos of s: the leftmost match that starts
\* at pos or later, or NoMatch
RECURSIVE tt_regex_search(_, _)
tt_regex_search(s, pos) ==
    IF pos > Len(s) THEN NoMatch
    ELSE LET m == tt_regex_match(s, pos)
         IN  IF m # NoMatch THEN m ELSE tt_regex_search(s, pos + 1)

\* (a variant: the search goes on from the closing brace of the match)
AfterMatchOnBrace(m) == m.end - 1

\* the position tt_regex.sub searches on from after a match
AfterMatch(m) == m.end

\* (a variant: count=1, only the first match replaced)
SubFromOnce(s, pos) ==
    LET m == tt_regex_search(s, pos)
    IN  IF m = NoMatch THEN SubSeq(s, pos, Len(s))
        ELSE SubSeq(s, pos, m.start - 1) \o tt_replace(m)
                 \o SubSeq(s, m.end, Len(s))

\* (a variant: the text after the last match not copied)
RECURSIVE SubFromDropTail(_, _)
SubFromDropTail(s, pos) ==
    LET m == tt_regex_search(s, pos)
    IN  IF m = NoMatch THEN <<>>
        ELSE SubSeq(s, pos, m.start - 1) \o tt_replace(m)
                 \o SubFromDropTail(s, AfterMatch(m))

(* Line 14: tt_regex.sub(tt_replace, orig), from position pos on: the text   *)
(* before each match is copied, the match is replaced by what tt_replace     *)
(* returns, and the text after the last match is copied.                     *)
RECURSIVE SubFrom(_, _)
SubFrom(s, pos) ==
    LET m == tt_regex_search(s, pos)
    IN  IF m = NoMatch THEN SubSeq(s, pos, Len(s))
        ELSE SubSeq(s, pos, m.start - 1) \o tt_replace(m)
                 \o SubFrom(s, AfterMatch(m))

Sub(s) == SubFrom(s, 1)

-----------------------------------------------------------------------------
(* The file system. *)

Paths == {"a.tex", "b.tex"}

\* A path names nothing (creatable: its directory exists and is writable),
\* a directory, or a regular file with its content and permissions.
Absent(creatable) ==
    [kind |-> "absent", content |-> <<>>, readable |-> FALSE, writable |-> creatable]
Directory ==
    [kind |-> "dir", content |-> <<>>, readable |-> FALSE, writable |-> FALSE]
RegularFile(text, r, w) ==
    [kind |-> "file", content |-> text, readable |-> r, writable |-> w]

FileTexts == TextsOf(FilePieces, MaxFilePieces)

FileStates ==
    { Absent(c) : c \in BOOLEAN } \cup { Directory }
      \cup { RegularFile(t, r, w) : t \in FileTexts, r \in BOOLEAN, w \in BOOLEAN }

ArgLists == UNION { [1..k -> Paths] : k \in 0..MaxArgs }

-----------------------------------------------------------------------------
(* The run of the script. *)

Init ==
    /\ pc = "unpack"
    /\ argv \in ArgLists
    /\ fs \in [Paths -> FileStates]
    /\ fs0 = fs
    /\ in_filename = "" /\ out_filename = ""
    /\ in_file = "none" /\ out_file = "none"
    /\ orig = <<>> /\ replaced = <<>>
    /\ error = "none"
    /\ nread = 0 /\ nsub = 0 /\ nwrite = 0

\* an uncaught exception: the traceback is printed and the exit code is 1
Raise(e) == pc' = "error" /\ error' = e

\* (a variant: the two names unpacked in the other order)
UnpackArgsSwapped ==
    /\ pc = "unpack"
    /\ IF Len(argv) = 2
       THEN /\ in_filename' = argv[2]
            /\ out_filename' = argv[1]
            /\ pc' = "open_in"
            /\ UNCHANGED error
       ELSE /\ Raise("ValueError")
            /\ UNCHANGED <<in_filename, out_filename>>
    /\ UNCHANGED <<argv, fs, fs0, in_file, out_file, orig, replaced,
                   nread, nsub, nwrite>>

\* (a variant: sys.argv[1:3], further arguments ignored)
UnpackArgsFirstTwo ==
    /\ pc = "unpack"
    /\ IF Len(argv) >= 2
       THEN /\ in_filename' = argv[1]
            /\ out_filename' = argv[2]
            /\ pc' = "open_in"
            /\ UNCHANGED error
       ELSE /\ Raise("ValueError")
            /\ UNCHANGED <<in_filename, out_filename>>
    /\ UNCHANGED <<argv, fs, fs0, in_file, out_file, orig, replaced,
                   nread, nsub, nwrite>>

(* Line 5: in_filename, out_filename = sys.argv[1:] *)
UnpackArgs ==
    /\ pc = "unpack"
    /\ IF Len(argv) = 2
       THEN /\ in_filename' = argv[1]
            /\ out_filename' = argv[2]
            /\ pc' = "open_in"
            /\ UNCHANGED error
       ELSE /\ Raise("ValueError")
            /\ UNCHANGED <<in_filename, out_filename>>
    /\ UNCHANGED <<argv, fs, fs0, in_file, out_file, orig, replaced,
                   nread, nsub, nwrite>>

\* open(name, 'r') fails on a missing path, a directory and an unreadable file
OpenReadError(f) ==
    IF f.kind = "absent" THEN "FileNotFoundError"
    ELSE IF f.kind = "dir" THEN "IsADirectoryError"
    ELSE IF ~f.readable THEN "PermissionError"
    ELSE "none"

\* (a variant: the failure to open swallowed, the run going on with no text)
OpenInUnchecked ==
    /\ pc = "open_in"
    /\ in_file' = "open"
    /\ pc' = "read"
    /\ UNCHANGED <<argv, fs, fs0, in_filename, out_filename, out_file, orig,
                   replaced, error, nread, nsub, nwrite>>

(* Line 11: with open(in_filename, 'r') as in_file: *)
OpenIn ==
    /\ pc = "open_in"
    /\ LET e == OpenReadError(fs[in_filename])
       IN  IF e = "none"
           THEN in_file' = "open" /\ pc' = "read" /\ UNCHANGED error
           ELSE Raise(e) /\ UNCHANGED in_file
    /\ UNCHANGED <<argv, fs, fs0, in_filename, out_filename, out_file, orig,
                   replaced, nread, nsub, nwrite>>

(* Line 12: orig = in_file.read() *)
ReadIn ==
    /\ pc = "read"
    /\ in_file = "open"
    /\ orig' = fs[in_filename].content
    /\ nread' = nread + 1
    /\ pc' = "close_in"
    /\ UNCHANGED <<argv, fs, fs0, in_filename, out_filename, in_file, out_file,
                   replaced, error, nsub, nwrite>>

\* (a variant: no with block, in_file left open)
CloseInLeak ==
    /\ pc = "close_in"
    /\ pc' = "sub"
    /\ UNCHANGED <<argv, fs, fs0, in_filename, out_filename, in_file, out_file,
                   orig, replaced, error, nread, nsub, nwrite>>

(* Lines 11-12: the with block ends and closes in_file *)
CloseIn ==
    /\ pc = "close_in"
    /\ in_file' = "closed"
    /\ pc' = "sub"
    /\ UNCHANGED <<argv, fs, fs0, in_filename, out_filename, out_file, orig,
                   replaced, error, nread, nsub, nwrite>>

(* Line 14: replaced = tt_regex.sub(tt_replace, orig) *)
Substitute ==
    /\ pc = "sub"
    /\ replaced' = Sub(orig)
    /\ nsub' = nsub + 1
    /\ pc' = "open_out"
    /\ UNCHANGED <<argv, fs, fs0, in_filename, out_filename, in_file, out_file,
                   orig, error, nread, nwrite>>

\* open(name, 'w') fails on a directory, an unwritable file, and a missing
\* path that cannot be created
OpenWriteError(f) ==
    IF f.kind = "dir" THEN "IsADirectoryError"
    ELSE IF f.kind = "absent" /\ ~f.writable THEN "FileNotFoundError"
    ELSE IF ~f.writable THEN "PermissionError"
    ELSE "none"

\* what open(name, 'w') leaves at the path: an empty file, created or truncated
Truncated(f) ==
    IF f.kind = "absent" THEN RegularFile(<<>>, TRUE, TRUE)
    ELSE [f EXCEPT !.content = <<>>]

\* (a variant: mode 'a', the file not truncated)
OpenOutAppend ==
    /\ pc = "open_out"
    /\ LET e == OpenWriteError(fs[out_filename])
       IN  IF e = "none"
           THEN /\ fs' = [fs EXCEPT ![out_filename] =
                              IF @.kind = "absent" THEN Truncated(@) ELSE @]
                /\ out_file' = "open"
                /\ pc' = "write"
                /\ UNCHANGED error
           ELSE /\ Raise(e)
                /\ UNCHANGED <<fs, out_file>>
    /\ UNCHANGED <<argv, fs0, in_filename, out_filename, in_file, orig,
                   replaced, nread, nsub, nwrite>>

(* Line 15: with open(out_filename, 'w') as out_file: *)
OpenOut ==
    /\ pc = "open_out"
    /\ LET e == OpenWriteError(fs[out_filename])
       IN  IF e = "none"
           THEN /\ fs' = [fs EXCEPT ![out_filename] = Truncated(@)]
                /\ out_file' = "open"
                /\ pc' = "write"
                /\ UNCHANGED error
           ELSE /\ Raise(e)
                /\ UNCHANGED <<fs, out_file>>
    /\ UNCHANGED <<argv, fs0, in_filename, out_filename, in_file, orig,
                   replaced, nread, nsub, nwrite>>

(* Line 16: out_file.write(replaced), the text going in at the file position *)
WriteOut ==
    /\ pc = "write"
    /\ out_file = "open"
    /\ fs' = [fs EXCEPT ![out_filename].content = @ \o replaced]
    /\ nwrite' = nwrite + 1
    /\ pc' = "close_out"
    /\ UNCHANGED <<argv, fs0, in_filename, out_filename, in_file, out_file,
                   orig, replaced, error, nread, nsub>>

(* Line 16 failing partway (the device is full): part of the text is in the  *)
(* file, the with block closes out_file and the exception ends the run.      *)
WriteFail ==
    /\ pc = "write"
    /\ out_file = "open"
    /\ \E n \in 0..(Len(replaced) - 1) :
          fs' = [fs EXCEPT ![out_filename].content = @ \o SubSeq(replaced, 1, n)]
    /\ out_file' = "closed"
    /\ Raise("OSError")
    /\ UNCHANGED <<argv, fs0, in_filename, out_filename, in_file, orig,
                   replaced, nread, nsub, nwrite>>

(* Lines 15-16: the with block ends and closes out_file; the script ends *)
CloseOut ==
    /\ pc = "close_out"
    /\ out_file' = "closed"
    /\ pc' = "done"
    /\ UNCHANGED <<argv, fs, fs0, in_filename, out_filename, in_file, orig,
                   replaced, error, nread, nsub, nwrite>>

Next ==
    \/ UnpackArgs
    \/ OpenIn
    \/ ReadIn
    \/ CloseIn
    \/ Substitute
    \/ OpenOut
    \/ WriteOut
    \/ WriteFail
    \/ CloseOut

Spec == Init /\ [][Next]_vars

\* the exit code of a run that has ended
Terminated == pc \in {"done", "error"}
ExitCode == IF pc = "done" THEN 0 ELSE 1

-----------------------------------------------------------------------------
(* The filter alone: line 14 applied to every Source Text of the bound. *)

InitFilter ==
    /\ pc = "sub"
    /\ argv = <<"a.tex", "b.tex">>
    /\ \E k \in 0..MaxPieces : \E ps \in [1..k -> Pieces] :
          Len(Flatten(ps)) <= MaxLen /\ orig = Flatten(ps)
    /\ fs = [p \in Paths |-> IF p = "a.tex" THEN RegularFile(orig, TRUE, TRUE)
                                             ELSE Absent(TRUE)]
    /\ fs0 = fs
    /\ in_filename = "a.tex" /\ out_filename = "b.tex"
    /\ in_file = "closed" /\ out_file = "none"
    /\ replaced = <<>>
    /\ error = "none"
    /\ nread = 1 /\ nsub = 0 /\ nwrite = 0

NextFilter == Substitute

SpecFilter == InitFilter /\ [][NextFilter]_vars

TypeOK ==
    /\ pc \in {"unpack", "open_in", "read", "close_in", "sub", "open_out",
               "write", "close_out", "done", "error"}
    /\ in_file \in {"none", "open", "closed"}
    /\ out_file \in {"none", "open", "closed"}
    /\ nread \in 0..1 /\ nsub \in 0..1 /\ nwrite \in 0..1

-----------------------------------------------------------------------------
(* Vocabulary of the properties. *)

\* line 14 has run: replaced holds the Output Text of the Source Text orig
Filtered == nsub = 1

Positions(t) == 1..Len(t)

TextFrom(t, i) == SubSeq(t, i, Len(t))

\* the position of the first closing brace of t, 0 when t has none
RECURSIVE FirstClose(_)
FirstClose(t) ==
    IF t = <<>> THEN 0
    ELSE IF Head(t) = "}" THEN 1
    ELSE LET n == FirstClose(Tail(t)) IN IF n = 0 THEN 0 ELSE n + 1

StartsWithMarker(t) ==
    Len(t) >= Len(Marker) /\ SubSeq(t, 1, Len(Marker)) = Marker

\* The scan the substitution rule describes, on what is left of the text: at a
\* marker with a closing brace after it and at least minCapture characters in
\* between, the capture replaces marker + capture + brace and the scan goes on
\* after the brace; any other character is copied.
RECURSIVE ScanReplace(_, _)
ScanReplace(t, minCapture) ==
    IF t = <<>> THEN <<>>
    ELSE LET rest == TextFrom(t, Len(Marker) + 1)
             n    == FirstClose(rest)
         IN  IF StartsWithMarker(t) /\ n > minCapture
             THEN SubSeq(rest, 1, n - 1)
                      \o ScanReplace(TextFrom(rest, n + 1), minCapture)
             ELSE <<Head(t)>> \o ScanReplace(Tail(t), minCapture)

\* t holds a Pattern Match: a marker, one or more characters that are not a
\* closing brace, a closing brace
HasPatternMatch(t) ==
    \E i \in Positions(t) :
        /\ MarkerAt(t, i)
        /\ \E e \in (i + Len(Marker) + 1)..Len(t) :
              /\ t[e] = "}"
              /\ \A k \in (i + Len(Marker))..(e - 1) : t[k] # "}"

\* t holds a marker with no closing brace after it
HasOpenMarker(t) ==
    \E i \in Positions(t) :
        MarkerAt(t, i) /\ \A k \in (i + Len(Marker))..Len(t) : t[k] # "}"

\* t holds a marker with a closing brace somewhere after it
HasClosedMarker(t) ==
    \E i \in Positions(t) :
        MarkerAt(t, i) /\ \E k \in (i + Len(Marker))..Len(t) : t[k] = "}"

BraceFree(t) == \A k \in Positions(t) : t[k] \notin {"{", "}"}

PlainText(t) == \A k \in Positions(t) : t[k] \notin {"\\", "{", "}"}

\* the matches tt_regex.sub replaces in s, left to right
RECURSIVE MatchesFrom(_, _)
MatchesFrom(s, pos) ==
    LET m == tt_regex_search(s, pos)
    IN  IF m = NoMatch THEN <<>> ELSE <<m>> \o MatchesFrom(s, m.end)

Matches(s) == MatchesFrom(s, 1)

\* every captured content of s is plain text
CapturesPlain(s) ==
    LET ms == Matches(s) IN \A n \in Positions(ms) : PlainText(ms[n].group1)

\* every backslash of s starts a Pattern Match whose captured content is
\* plain text: the captures are plain and no backslash is outside the spans
BackslashesOnlyInMarkers(s) ==
    \A i \in Positions(s) :
        s[i] = "\\" => LET m == tt_regex_match(s, i)
                       IN  m # NoMatch /\ PlainText(m.group1)

\* orig is P + \texttt{X} + S with the marker at i and the closing brace at e,
\* X non-empty and free of braces
WellFormedAt(i, e) ==
    /\ MarkerAt(orig, i)
    /\ e > i + Len(Marker)
    /\ e <= Len(orig)
    /\ orig[e] = "}"
    /\ BraceFree(SubSeq(orig, i + Len(Marker), e - 1))

Before(i) == SubSeq(orig, 1, i - 1)
Inside(i, e) == SubSeq(orig, i + Len(Marker), e - 1)
Between(e, i) == SubSeq(orig, e + 1, i - 1)
After(e) == TextFrom(orig, e + 1)

MarkerPositions == { i \in Positions(orig) : MarkerAt(orig, i) }
ClosePositions == { e \in Positions(orig) : orig[e] = "}" }

\* orig is \texttt{ + A + \texttt{ + B + } + C + } with A of a characters and B
\* of b characters, A, B and C free of braces
NestedForm(a, b) ==
    LET m == Len(Marker) IN
    /\ Len(orig) >= 2 * m + a + b + 2
    /\ MarkerAt(orig, 1)
    /\ MarkerAt(orig, m + a + 1)
    /\ orig[2 * m + a + b + 1] = "}"
    /\ orig[Len(orig)] = "}"
    /\ BraceFree(SubSeq(orig, m + 1, m + a))
    /\ BraceFree(SubSeq(orig, 2 * m + a + 1, 2 * m + a + b))
    /\ BraceFree(SubSeq(orig, 2 * m + a + b + 2, Len(orig) - 1))

NestedOutput(a, b) ==
    LET m == Len(Marker) IN
    SubSeq(orig, m + 1, 2 * m + a + b)
        \o SubSeq(orig, 2 * m + a + b + 2, Len(orig))

\* the input path cannot be opened for reading when the run starts
InputUnopenable ==
    Len(argv) = 2 /\ OpenReadError(fs0[argv[1]]) # "none"

-----------------------------------------------------------------------------
(* The properties. *)

\* C1 (as stated): the Output Text is the result of the scan that replaces at
\* every marker with a closing brace after it, whatever the length of the
\* captured content, the empty capture included.
C1_AnyCaptureLength == Filtered => replaced = ScanReplace(orig, 0)

\* C1 (amended): the Output Text is the result of the scan that replaces at
\* every marker followed by at least one character other than a closing brace
\* and then a closing brace; a marker directly followed by a closing brace is
\* copied like any other text.
C1_ScanNonEmptyCapture == Filtered => replaced = ScanReplace(orig, 1)

\* a Source Text with one match replaced and an empty \texttt{} left in place
C1_Witness ==
    /\ Filtered
    /\ replaced # orig
    /\ replaced = ScanReplace(orig, 1)
    /\ replaced # ScanReplace(orig, 0)

\* C2 (as stated): when every captured content is plain text, filtering the
\* Output Text again changes nothing.
C2_IdempotentOnPlainCaptures ==
    (Filtered /\ CapturesPlain(orig)) => Sub(replaced) = replaced

\* C2 (amended): when every captured content is plain text and the Source Text
\* has no backslash outside its match spans (every backslash starts a Pattern
\* Match with a plain capture), filtering the Output Text again changes nothing.
C2_IdempotentNoStrayBackslash ==
    (Filtered /\ BackslashesOnlyInMarkers(orig)) => Sub(replaced) = replaced

\* two matches replaced, no backslash left over
C2_Witness ==
    /\ Filtered
    /\ BackslashesOnlyInMarkers(orig)
    /\ Len(Matches(orig)) >= 2
    /\ Sub(replaced) = replaced

\* C5: a Source Text in which no marker is followed later by a closing brace
\* comes out unchanged.
C5_IdentityWithoutClosedMarker ==
    (Filtered /\ ~HasClosedMarker(orig)) => replaced = orig

\* an unclosed marker left in place
C5_Witness ==
    Filtered /\ ~HasClosedMarker(orig) /\ HasOpenMarker(orig) /\ replaced = orig

\* C6 (as stated): for P + \texttt{X} + S with X non-empty and free of braces
\* and no Pattern Match in P or in S, the Output Text is P + X + S.
C6_SpanReplaced ==
    Filtered =>
        \A i \in MarkerPositions : \A e \in ClosePositions :
            ( /\ WellFormedAt(i, e)
              /\ ~HasPatternMatch(Before(i))
              /\ ~HasPatternMatch(After(e)) )
            => replaced = Before(i) \o Inside(i, e) \o After(e)

\* C6 (amended): the same, when in addition P holds no marker left unclosed
\* within P; and with two such occurrences, P + \texttt{X} + Q + \texttt{Y} + S,
\* no Pattern Match in P, Q or S and no unclosed marker in P or Q, the Output
\* Text is P + X + Q + Y + S.
C6_SpanReplacedClosedPrefix ==
    Filtered =>
        \A i \in MarkerPositions : \A e \in ClosePositions :
            ( /\ WellFormedAt(i, e)
              /\ ~HasPatternMatch(Before(i))
              /\ ~HasOpenMarker(Before(i)) )
            => /\ ~HasPatternMatch(After(e))
                  => replaced = Before(i) \o Inside(i, e) \o After(e)
               /\ \A i2 \in MarkerPositions : \A e2 \in ClosePositions :
                     ( /\ e < i2
                       /\ WellFormedAt(i2, e2)
                       /\ ~HasPatternMatch(Between(e, i2))
                       /\ ~HasOpenMarker(Between(e, i2))
                       /\ ~HasPatternMatch(After(e2)) )
                     => replaced = Before(i) \o Inside(i, e) \o Between(e, i2)
                                       \o Inside(i2, e2) \o After(e2)

\* two occurrences with text between them
C6_Witness ==
    /\ Filtered
    /\ \E i \in MarkerPositions : \E e \in ClosePositions :
       \E i2 \in MarkerPositions : \E e2 \in ClosePositions :
          /\ WellFormedAt(i, e) /\ WellFormedAt(i2, e2)
          /\ e + 1 < i2
          /\ ~HasPatternMatch(Before(i)) /\ ~HasOpenMarker(Before(i))
          /\ ~HasPatternMatch(Between(e, i2)) /\ ~HasOpenMarker(Between(e, i2))
          /\ ~HasPatternMatch(After(e2))
          /\ replaced = Before(i) \o Inside(i, e) \o Between(e, i2)
                            \o Inside(i2, e2) \o After(e2)

\* C7: for \texttt{ + A + \texttt{ + B + } + C + } with A, B and C free of
\* braces the Output Text is A + \texttt{ + B + C + }: the outer capture ends
\* at the first closing brace, the inner marker and the last brace stay.
C7_NestedNotUnwrapped ==
    (Filtered /\ MarkerAt(orig, 1)) =>
        \A a \in 0..Len(orig) : \A b \in 0..Len(orig) :
            NestedForm(a, b) => replaced = NestedOutput(a, b)

\* a nested text with A and B non-empty
C7_Witness ==
    /\ Filtered
    /\ \E a \in 1..Len(orig) : \E b \in 1..Len(orig) :
          /\ NestedForm(a, b)
          /\ replaced = NestedOutput(a, b)
          /\ MarkerAt(replaced, a + 1)

\* C3 (as stated): when the run has ended, with success or with an error, the
\* file at the input path holds what it held before the run, also when both
\* arguments name the same file.
C3_InputNeverMutated ==
    (Terminated /\ Len(argv) = 2) => fs[argv[1]] = fs0[argv[1]]

\* C3 (amended): when the two arguments name different files, the file at the
\* input path holds what it held before the run, at every step of the run and
\* whatever its outcome.
C3_InputKeptWhenPathsDiffer ==
    (Len(argv) = 2 /\ argv[1] # argv[2]) => fs[argv[1]] = fs0[argv[1]]

\* a run that wrote its output and left its input as it was
C3_Witness ==
    /\ pc = "done"
    /\ argv[1] # argv[2]
    /\ fs[argv[2]] # fs0[argv[2]]
    /\ fs[argv[1]] = fs0[argv[1]]
    /\ replaced # orig

\* C4: when the input file cannot be opened the run ends in an error with a
\* non-zero exit code and the output file is never opened: it is not created,
\* and an existing one keeps its content.
C4_UnopenableInput ==
    InputUnopenable =>
        /\ out_file = "none"
        /\ fs = fs0
        /\ nread = 0
        /\ pc \in {"unpack", "open_in", "error"}
        /\ pc = "error" =>
              /\ error \in {"FileNotFoundError", "IsADirectoryError", "PermissionError"}
              /\ ExitCode # 0

\* a run ended by a missing input file, the output path still naming nothing
C4_Witness ==
    /\ InputUnopenable
    /\ pc = "error"
    /\ error = "FileNotFoundError"
    /\ argv[1] # argv[2]
    /\ fs[argv[2]].kind = "absent"

\* C8: when the run has ended with exit code 0 the output file exists and
\* holds exactly the Output Text of what the input file held, with nothing of
\* its previous content, and the write has completed.
C8_OutputOnSuccess ==
    (Terminated /\ ExitCode = 0) =>
        /\ fs[out_filename].kind = "file"
        /\ fs[out_filename].content = Sub(fs0[in_filename].content)
        /\ nwrite = 1
        /\ out_file = "closed"
        /\ error = "none"

\* a successful run over an output file that held something else before
C8_Witness ==
    /\ Terminated /\ ExitCode = 0
    /\ fs0[out_filename].kind = "file"
    /\ fs0[out_filename].content # <<>>
    /\ fs[out_filename].content # fs0[out_filename].content
    /\ fs[out_filename].content # fs0[in_filename].content
    /\ in_filename # out_filename

\* C9: with a number of arguments other than two the run ends in an error with
\* a non-zero exit code before any file is opened: nothing is read, and the
\* file system is as it was.
C9_WrongArgumentCount ==
    Len(argv) # 2 =>
        /\ in_file = "none" /\ out_file = "none"
        /\ nread = 0
        /\ fs = fs0
        /\ pc \in {"unpack", "error"}
        /\ pc = "error" => (error = "ValueError" /\ ExitCode # 0)

\* a run given three arguments, ended by the unpacking
C9_Witness == Len(argv) = 3 /\ pc = "error" /\ error = "ValueError"

\* C10: the input handle is opened, read once and released before the
\* substitution; the output file is opened, and the file system touched, only
\* after the substitution; the two handles are never open together; the read,
\* the substitution and the write each happen at most once.
C10_StepsOrdered ==
    /\ ~(in_file = "open" /\ out_file = "open")
    /\ nread <= 1 /\ nsub <= 1 /\ nwrite <= 1
    /\ nread = 1 => in_file # "none"
    /\ nsub = 1 => (nread = 1 /\ in_file = "closed")
    /\ out_file # "none" => (nsub = 1 /\ in_file = "closed")
    /\ fs # fs0 => out_file # "none"
    /\ nwrite = 1 => out_file # "none"
    /\ pc = "done" => (nread = 1 /\ nsub = 1 /\ nwrite = 1
                         /\ in_file = "closed" /\ out_file = "closed")

\* a run that went through every step
C10_Witness == pc = "done" /\ nread = 1 /\ nsub = 1 /\ nwrite = 1

====
